---- MODULE Spec2Model ----
(***************************************************************************)
(* invoicehandler: a directory watcher that renames files by the first     *)
(* matching regex rule and reloads its rules when config.ini changes.      *)
(*                                                                         *)
(* Strings are sequences of one-character strings.  A pattern is a         *)
(* sequence of literals, "." (any character) and "(" (an unclosed group,   *)
(* which Regex::new rejects).  A replacement template is a sequence of     *)
(* literals and the token "$0" (the whole match).                          *)
(***************************************************************************)
EXTENDS Naturals, Sequences, FiniteSets

\* ---------------------------------------------------------------- bounds
MaxRetries == 2     \* largest max_lock_retries read from [settings]
MaxEvents  == 2     \* events the notification source delivers in one run
MaxPaths   == 2     \* paths carried by one event
MaxEnv     == 2     \* steps of the environment (editor, writers) in one run
MaxRules   == 2     \* rules of a RuleSet, where every rule list is tried
MaxNameLen == 2     \* length of a filename, where every filename is tried
NameMax    == 3     \* longest name the filesystem takes

\* ------------------------------------------------------------ the inputs
\* what a [settings] section can say
SettingsChoices ==
  [watch_directory : {"dir", "other"},
   max_lock_retries : 0..MaxRetries,
   lock_retry_delay_ms : {1, 1000}]

ConfigPath == <<"c">>
Names == { <<"a">> }
Paths == Names \cup {ConfigPath}

EventKinds == {"Create", "Modify", "Remove"}

PathLists == UNION { [1..n -> Paths] : n \in 1..MaxPaths }

\* what the watcher delivers: only a rename (Modify) names two paths
Events ==
  { e \in [kind : EventKinds, paths : PathLists] :
      e.kind = "Modify" \/ Len(e.paths) = 1 }

Rule(p, r) == [pat |-> p, rep |-> r]

Ini(r, t) == [readable |-> r, translations |-> t]

\* contents config.ini can have: whether Ini::load_from_file can load it,
\* and the entries of its [translations] section in file order
ConfigChoices ==
  { Ini(TRUE, <<>>),
    Ini(TRUE, << Rule(<<"a">>, <<"x", "$0">>), Rule(<<".">>, <<"u", "$0">>) >>),
    Ini(TRUE, << Rule(<<"a">>, <<"$0">>),      Rule(<<".">>, <<"u", "$0">>) >>),
    Ini(TRUE, << Rule(<<"b">>, <<"x">>),       Rule(<<".">>, <<"u", "$0">>) >>),
    Ini(TRUE, << Rule(<<"b">>, <<"x", "$0">>) >>),
    Ini(TRUE, << Rule(<<".">>, <<"u", "$0">>), Rule(<<"(">>, <<"x">>) >>),
    Ini(FALSE, <<>>) }

\* --------------------------------------------------------------- regex
\* Regex::new: the pattern compiles
Compiles(pat) == \A k \in 1..Len(pat) : pat[k] # "("

\* the pattern matches s at position i (1-based)
MatchAt(pat, s, i) ==
  /\ i + Len(pat) <= Len(s) + 1
  /\ \A k \in 1..Len(pat) : pat[k] = "." \/ pat[k] = s[i + k - 1]

\* Regex::is_match: the pattern matches anywhere within s
is_match(pat, s) == \E i \in 1..(Len(s) + 1) : MatchAt(pat, s, i)

\* position of the leftmost match
MatchPos(pat, s) ==
  CHOOSE i \in 1..(Len(s) + 1) :
    /\ MatchAt(pat, s, i)
    /\ \A j \in 1..(i - 1) : ~MatchAt(pat, s, j)

RECURSIVE Expand(_, _)
\* expansion of a replacement template against the matched text m
Expand(rep, m) ==
  IF rep = <<>> THEN <<>>
  ELSE (IF Head(rep) = "$0" THEN m ELSE <<Head(rep)>>) \o Expand(Tail(rep), m)

\* Regex::replace: the leftmost match is replaced, the rest is kept
replace(pat, s, rep) ==
  IF ~is_match(pat, s) THEN s
  ELSE LET i == MatchPos(pat, s)
           m == SubSeq(s, i, i + Len(pat) - 1)
       IN SubSeq(s, 1, i - 1) \o Expand(rep, m) \o SubSeq(s, i + Len(pat), Len(s))

\* ---------------------------------------------------------- load_rules
RECURSIVE LoadFromReversed(_, _, _)
\* a loop that puts each rule in front of the ones pushed so far
LoadFromReversed(section, i, acc) ==
  IF i > Len(section) THEN [ok |-> TRUE, rules |-> acc, bad |-> 0]
  ELSE IF Compiles(section[i].pat)
       THEN LoadFromReversed(section, i + 1, <<section[i]>> \o acc)
       ELSE [ok |-> FALSE, rules |-> acc, bad |-> i]

RECURSIVE LoadFrom(_, _, _)
\* the loop of load_rules over the section, from entry i on, with the
\* rules pushed so far
LoadFrom(section, i, acc) ==
  IF i > Len(section) THEN [ok |-> TRUE, rules |-> acc, bad |-> 0]
  ELSE IF Compiles(section[i].pat)
       THEN LoadFrom(section, i + 1, Append(acc, section[i]))
       ELSE [ok |-> FALSE, rules |-> acc, bad |-> i]

load_rules(cfg) ==
  IF ~cfg.readable THEN [ok |-> FALSE, rules |-> <<>>, bad |-> 0]
  ELSE LoadFrom(cfg.translations, 1, <<>>)

\* -------------------------------------------------------- apply_rename
RECURSIVE ScanFromAll(_, _, _)
\* ScanFrom without the `return` of line 134: every rule is tried and the
\* last match decides
ScanFromAll(rs, fname, i) ==
  IF i > Len(rs) THEN [evaluated |-> <<>>, chosen |-> 0]
  ELSE LET rest == ScanFromAll(rs, fname, i + 1)
       IN [evaluated |-> <<i>> \o rest.evaluated,
           chosen |-> IF rest.chosen # 0 THEN rest.chosen
                      ELSE IF is_match(rs[i].pat, fname) THEN i ELSE 0]

RECURSIVE ScanFrom(_, _, _)
\* the loop of apply_rename over the rules, from rule i on: the rules on
\* which is_match was called, and the rule that returned (0: none)
ScanFrom(rs, fname, i) ==
  IF i > Len(rs) THEN [evaluated |-> <<>>, chosen |-> 0]
  ELSE IF is_match(rs[i].pat, fname)
       THEN [evaluated |-> <<i>>, chosen |-> i]
       ELSE LET rest == ScanFrom(rs, fname, i + 1)
            IN [evaluated |-> <<i>> \o rest.evaluated, chosen |-> rest.chosen]

Scan(rs, fname) == ScanFrom(rs, fname, 1)

\* ------------------------------------------------------------ the state
VARIABLES
  config,      \* the [translations] section of config.ini, as saved
  fileSettings,\* the [settings] section of config.ini, as saved
  settings,    \* Settings, read once at startup
  rules,       \* the RuleSet in force (main's `rules`)
  files,       \* names present in the watched directory
  locked,      \* names a writer holds open exclusively
  queue,       \* the channel between the watcher callback and main
  cur,         \* the event main's loop is processing
  idx,         \* position in cur.paths
  pc,          \* where main is: idle, route, probe, scan
  attempt,     \* wait_for_file_unlock's loop variable
  log,         \* what was done for the current event, in order
  rulesAtRecv, \* the RuleSet in force when cur was received
  enqueued,    \* events sent so far
  processed,   \* events whose handling is complete
  failed,      \* a reload, existence check, lock wait or rename has failed
  envSteps     \* steps the environment has taken

vars == <<config, fileSettings, settings, rules, files, locked, queue, cur, idx, pc,
          attempt, log, rulesAtRecv, enqueued, processed, failed, envSteps>>

\* what the environment cannot change
mainVars == <<settings, rules, cur, idx, pc, attempt, log, rulesAtRecv,
              processed, failed>>

\* load_settings: the values of the [settings] section, parsed as written
load_settings(section) ==
  [watch_directory |-> section.watch_directory,
   max_lock_retries |-> section.max_lock_retries,
   lock_retry_delay_ms |-> section.lock_retry_delay_ms]

NoEvent == [kind |-> "None", paths |-> <<>>]

\* one line of the log: the operation, the position and the path it is
\* for, a number (attempt, rule index, rule count), the new name, and for
\* a rename call whether a writer held the file at that moment
Entry(o, p, k, t) ==
  [op |-> o, i |-> idx, path |-> p, n |-> k, to |-> t, held |-> FALSE]

CurPath == cur.paths[idx]

\* a comparison that takes no path for the configuration file
IsConfigNever(p) == FALSE

\* path == &config_path
IsConfig(p) == p = ConfigPath

\* a check that finds every path present
ExistsAlways(p) == TRUE

\* file_path.exists()
Exists(p) == p \in files

\* main up to the start of the event loop: the process exits unless the
\* settings and the rules load
Init ==
  /\ config \in { c \in ConfigChoices : load_rules(c).ok }
  /\ fileSettings \in { s \in SettingsChoices :
                          /\ s.watch_directory = "dir"
                          /\ s.lock_retry_delay_ms = 1000 }
  /\ settings = load_settings(fileSettings)
  /\ rules = load_rules(config).rules
  /\ files \in SUBSET Names
  /\ locked = {}
  /\ queue = <<>>
  /\ cur = NoEvent
  /\ idx = 0
  /\ pc = "idle"
  /\ attempt = 0
  /\ log = <<>>
  /\ rulesAtRecv = rules
  /\ enqueued = 0
  /\ processed = 0
  /\ failed = FALSE
  /\ envSteps = 0

\* ---------------------------------------------------------- the watcher
\* the watcher callback sends an event into the channel
Notify(e) ==
  /\ enqueued < MaxEvents
  /\ queue' = Append(queue, e)
  /\ enqueued' = enqueued + 1
  /\ UNCHANGED <<config, fileSettings, files, locked, envSteps, mainVars>>

\* ------------------------------------------------------ the environment
\* somebody saves config.ini
EditConfig(c) ==
  /\ envSteps < MaxEnv
  /\ envSteps' = envSteps + 1
  /\ c # config
  /\ config' = c
  /\ UNCHANGED <<fileSettings, files, locked, queue, enqueued, mainVars>>

\* somebody saves config.ini with another [settings] section
EditSettings(s) ==
  /\ envSteps < MaxEnv
  /\ envSteps' = envSteps + 1
  /\ s # fileSettings
  /\ fileSettings' = s
  /\ UNCHANGED <<config, files, locked, queue, enqueued, mainVars>>

\* a writer opens a file of the directory exclusively, creating it if needed
WriterOpen(f) ==
  /\ envSteps < MaxEnv
  /\ envSteps' = envSteps + 1
  /\ f \notin locked
  /\ files' = files \cup {f}
  /\ locked' = locked \cup {f}
  /\ UNCHANGED <<config, fileSettings, queue, enqueued, mainVars>>

\* the writer closes the file
WriterClose(f) ==
  /\ envSteps < MaxEnv
  /\ envSteps' = envSteps + 1
  /\ f \in locked
  /\ locked' = locked \ {f}
  /\ UNCHANGED <<config, fileSettings, files, queue, enqueued, mainVars>>

\* a file nobody holds open is deleted
FsRemove(f) ==
  /\ envSteps < MaxEnv
  /\ envSteps' = envSteps + 1
  /\ f \in files \ locked
  /\ files' = files \ {f}
  /\ UNCHANGED <<config, fileSettings, locked, queue, enqueued, mainVars>>

\* ------------------------------------------------------------- main loop
\* one more event counted, up to the number of events that is told apart
Inc(n) == IF n < MaxEvents THEN n + 1 ELSE n

\* the end of one iteration of `for path in &event.paths`
Advance ==
  IF idx < Len(cur.paths)
  THEN /\ idx' = idx + 1
       /\ pc' = "route"
       /\ processed' = processed
  ELSE /\ idx' = idx
       /\ pc' = "idle"
       /\ processed' = Inc(processed)

\* a match that takes every kind into the Create/Modify arm
HandledAny(kind) == TRUE

\* the kinds of the arm EventKind::Create(_) | EventKind::Modify(_)
Handled(kind) == kind \in {"Create", "Modify"}

\* a loop that takes the event sent last instead of the oldest one
RecvLast ==
  /\ pc = "idle"
  /\ queue # <<>>
  /\ cur' = queue[Len(queue)]
  /\ queue' = SubSeq(queue, 1, Len(queue) - 1)
  /\ log' = <<>>
  /\ rulesAtRecv' = rules
  /\ attempt' = 0
  /\ IF Handled(queue[Len(queue)].kind)
     THEN /\ idx' = 1
          /\ pc' = "route"
          /\ processed' = processed
     ELSE /\ idx' = 0
          /\ pc' = "idle"
          /\ processed' = Inc(processed)
  /\ UNCHANGED <<config, fileSettings, settings, rules, files, locked,
                 enqueued, failed, envSteps>>

\* `for event in rx` takes the next event and matches on its kind
Recv ==
  /\ pc = "idle"
  /\ queue # <<>>
  /\ cur' = Head(queue)
  /\ queue' = Tail(queue)
  /\ log' = <<>>
  /\ rulesAtRecv' = rules
  /\ attempt' = 0
  /\ IF Handled(Head(queue).kind)
     THEN /\ idx' = 1
          /\ pc' = "route"
          /\ processed' = processed
     ELSE /\ idx' = 0
          /\ pc' = "idle"
          /\ processed' = Inc(processed)
  /\ UNCHANGED <<config, fileSettings, settings, rules, files, locked, enqueued, failed,
                 envSteps>>

\* Reload installing whatever load_rules had pushed before it failed
ReloadPartial ==
  /\ pc = "route"
  /\ IsConfig(CurPath)
  /\ LET r == load_rules(config)
     IN /\ rules' = r.rules
        /\ failed' = (failed \/ ~r.ok)
        /\ log' = Append(log, Entry(IF r.ok THEN "reload_ok" ELSE "reload_fail",
                                    CurPath, IF r.ok THEN Len(r.rules) ELSE r.bad,
                                    <<>>))
  /\ Advance
  /\ UNCHANGED <<config, fileSettings, settings, files, locked, queue, cur, attempt,
                 rulesAtRecv, enqueued, envSteps>>

\* Reload leaving the event loop when load_rules fails, as startup does
ReloadExit ==
  /\ pc = "route"
  /\ IsConfig(CurPath)
  /\ LET r == load_rules(config)
     IN IF r.ok
        THEN /\ rules' = r.rules
             /\ failed' = failed
             /\ log' = Append(log, Entry("reload_ok", CurPath, Len(r.rules), <<>>))
             /\ Advance
        ELSE /\ rules' = rules
             /\ failed' = TRUE
             /\ log' = Append(log, Entry("reload_fail", CurPath, r.bad, <<>>))
             /\ pc' = "exit"
             /\ UNCHANGED <<idx, processed>>
  /\ UNCHANGED <<config, fileSettings, settings, files, locked, queue, cur, attempt,
                 rulesAtRecv, enqueued, envSteps>>

\* Reload ending the event's path loop after the reload
ReloadBreak ==
  /\ pc = "route"
  /\ IsConfig(CurPath)
  /\ LET r == load_rules(config)
     IN IF r.ok
        THEN /\ rules' = r.rules
             /\ failed' = failed
             /\ log' = Append(log, Entry("reload_ok", CurPath, Len(r.rules), <<>>))
        ELSE /\ rules' = rules
             /\ failed' = TRUE
             /\ log' = Append(log, Entry("reload_fail", CurPath, r.bad, <<>>))
  /\ idx' = idx
  /\ pc' = "idle"
  /\ processed' = Inc(processed)
  /\ UNCHANGED <<config, fileSettings, settings, files, locked, queue, cur, attempt,
                 rulesAtRecv, enqueued, envSteps>>

\* a reload that reads the [settings] section again as well
ReloadAll ==
  /\ pc = "route"
  /\ IsConfig(CurPath)
  /\ LET r == load_rules(config)
     IN IF r.ok
        THEN /\ rules' = r.rules
             /\ settings' = load_settings(fileSettings)
             /\ failed' = failed
             /\ log' = Append(log, Entry("reload_ok", CurPath, Len(r.rules), <<>>))
        ELSE /\ rules' = rules
             /\ settings' = settings
             /\ failed' = TRUE
             /\ log' = Append(log, Entry("reload_fail", CurPath, r.bad, <<>>))
  /\ Advance
  /\ UNCHANGED <<config, fileSettings, files, locked, queue, cur, attempt,
                 rulesAtRecv, enqueued, envSteps>>

\* path == &config_path: the rules are reloaded
Reload ==
  /\ pc = "route"
  /\ IsConfig(CurPath)
  /\ LET r == load_rules(config)
     IN IF r.ok
        THEN /\ rules' = r.rules
             /\ failed' = failed
             /\ log' = Append(log, Entry("reload_ok", CurPath, Len(r.rules), <<>>))
        ELSE /\ rules' = rules
             /\ failed' = TRUE
             /\ log' = Append(log, Entry("reload_fail", CurPath, r.bad, <<>>))
  /\ Advance
  /\ UNCHANGED <<config, fileSettings, settings, files, locked, queue, cur, attempt,
                 rulesAtRecv, enqueued, envSteps>>

\* any other path: apply_rename up to the first lock probe.  With
\* max_lock_retries = 0 the range 1..=0 is empty and wait_for_file_unlock
\* returns false from its last line without a probe or a message.
Dispatch ==
  /\ pc = "route"
  /\ ~IsConfig(CurPath)
  /\ IF ~Exists(CurPath)
     THEN /\ log' = Append(log, Entry("nosuchfile", CurPath, 0, <<>>))
          /\ failed' = TRUE
          /\ attempt' = attempt
          /\ Advance
     ELSE IF settings.max_lock_retries = 0
          THEN /\ log' = log \o <<Entry("exists", CurPath, 0, <<>>),
                                  Entry("gaveup", CurPath, 0, <<>>)>>
               /\ failed' = TRUE
               /\ attempt' = attempt
               /\ Advance
          ELSE /\ log' = Append(log, Entry("exists", CurPath, 0, <<>>))
               /\ failed' = failed
               /\ attempt' = 1
               /\ pc' = "probe"
               /\ UNCHANGED <<idx, processed>>
  /\ UNCHANGED <<config, fileSettings, settings, rules, files, locked, queue, cur,
                 rulesAtRecv, enqueued, envSteps>>

\* an open that only checks that the file is there
CanOpenAny(f) == f \in files

\* OpenOptions::open(read, write) succeeds
CanOpen(f) == f \in files /\ f \notin locked

\* one iteration of wait_for_file_unlock's loop: the probe, and on failure
\* the message and the sleep, or the skip
Probe ==
  /\ pc = "probe"
  /\ IF CanOpen(CurPath)
     THEN /\ log' = Append(log, Entry("probe_ok", CurPath, attempt, <<>>))
          /\ pc' = "scan"
          /\ UNCHANGED <<attempt, idx, processed, failed>>
     ELSE IF attempt < settings.max_lock_retries
          THEN /\ log' = Append(log, Entry("retry", CurPath, attempt, <<>>))
               /\ attempt' = attempt + 1
               /\ UNCHANGED <<pc, idx, processed, failed>>
          ELSE /\ log' = Append(log, Entry("skip", CurPath, attempt, <<>>))
               /\ failed' = TRUE
               /\ attempt' = attempt
               /\ Advance
  /\ UNCHANGED <<config, fileSettings, settings, rules, files, locked, queue, cur,
                 rulesAtRecv, enqueued, envSteps>>

\* the log of the is_match calls of one scan
Evals(p, evaluated) ==
  [k \in 1..Len(evaluated) |-> Entry("eval", p, evaluated[k], <<>>)]

\* the last "/" of a name, 0 when it has none
LastSlash(s) ==
  IF \E k \in 1..Len(s) : s[k] = "/"
  THEN CHOOSE k \in 1..Len(s) :
         s[k] = "/" /\ \A j \in (k + 1)..Len(s) : s[j] # "/"
  ELSE 0

\* file_path.with_file_name(new_filename) replaces the last component of
\* file_path by the new name, separators and all: this is the directory of
\* the result, relative to the directory of file_path
DirOf(new) == SubSeq(new, 1, LastSlash(new))

\* the new path lies in the directory of the old one
SameDir(new) == DirOf(new) = <<>>

\* fs::rename(old, new) succeeded: the file has the new name, and replaces
\* whatever had it; with a new path in another directory the file has left
\* the watched one
Moved(old, new) ==
  IF SameDir(new)
  THEN /\ files' = (files \ {old}) \cup {new}
       /\ locked' = IF old \in locked THEN (locked \ {old}) \cup {new}
                                     ELSE locked \ {new}
  ELSE /\ files' = files \ {old}
       /\ locked' = locked \ {old}

\* the RuleSet of the event's arrival, whatever was reloaded since
RulesSnapshot == rulesAtRecv

\* the rules of config.ini as it is now, loaded anew for every candidate
RulesFromFile ==
  IF load_rules(config).ok THEN load_rules(config).rules ELSE rules

\* the `&rules` that main passes to apply_rename
RulesArg == rules

\* a comparison that always finds the names different
DiffersAlways(new, old) == TRUE

\* new_filename != filename
Differs(new, old) == new # old

\* an apply_rename that tries again after a rename that failed
RenameRetry ==
  /\ pc = "scan"
  /\ LET p == CurPath
         rs == RulesArg
         s == Scan(rs, p)
         evs == Evals(p, s.evaluated)
     IN IF s.chosen = 0
        THEN /\ log' = log \o evs \o <<Entry("nomatch", p, 0, <<>>)>>
             /\ UNCHANGED <<files, locked, failed>>
             /\ Advance
        ELSE LET new == replace(rs[s.chosen].pat, p, rs[s.chosen].rep)
                 sub == Entry("replace", p, s.chosen, new)
                 call == [Entry("rename_call", p, s.chosen, new)
                            EXCEPT !.held = (p \in locked)]
             IN IF ~Differs(new, p)
                THEN /\ log' = log \o evs \o <<sub>>
                     /\ UNCHANGED <<files, locked, failed>>
                     /\ Advance
                ELSE \/ /\ p \in files
                        /\ Len(new) <= NameMax
                        /\ Moved(p, new)
                        /\ failed' = failed
                        /\ Advance
                        /\ log' = log \o evs \o
                             <<sub, call, Entry("renamed", p, s.chosen, new)>>
                     \/ /\ UNCHANGED <<files, locked>>
                        /\ failed' = TRUE
                        /\ UNCHANGED <<idx, pc, processed>>
                        /\ log' = log \o evs \o
                             <<sub, call, Entry("rename_failed", p, s.chosen, new)>>
  /\ UNCHANGED <<config, fileSettings, settings, rules, queue, cur, attempt, rulesAtRecv,
                 enqueued, envSteps>>

\* the rest of apply_rename: the rule scan and the rename.  fs::rename can
\* fail whatever the state of the file (permissions, a directory in the
\* way), and does fail when the file is gone or the new name is longer
\* than the filesystem takes.
Rename ==
  /\ pc = "scan"
  /\ LET p == CurPath
         rs == RulesArg
         s == Scan(rs, p)
         evs == Evals(p, s.evaluated)
     IN IF s.chosen = 0
        THEN /\ log' = log \o evs \o <<Entry("nomatch", p, 0, <<>>)>>
             /\ UNCHANGED <<files, locked, failed>>
        ELSE LET new == replace(rs[s.chosen].pat, p, rs[s.chosen].rep)
                 sub == Entry("replace", p, s.chosen, new)
                 call == [Entry("rename_call", p, s.chosen, new)
                            EXCEPT !.held = (p \in locked)]
             IN IF ~Differs(new, p)
                THEN /\ log' = log \o evs \o <<sub>>
                     /\ UNCHANGED <<files, locked, failed>>
                ELSE \/ /\ p \in files
                        /\ Len(new) <= NameMax
                        /\ Moved(p, new)
                        /\ failed' = failed
                        /\ log' = log \o evs \o
                             <<sub, call, Entry("renamed", p, s.chosen, new)>>
                     \/ /\ UNCHANGED <<files, locked>>
                        /\ failed' = TRUE
                        /\ log' = log \o evs \o
                             <<sub, call, Entry("rename_failed", p, s.chosen, new)>>
  /\ Advance
  /\ UNCHANGED <<config, fileSettings, settings, rules, queue, cur, attempt, rulesAtRecv,
                 enqueued, envSteps>>

Consumer == Recv \/ Reload \/ Dispatch \/ Probe \/ Rename

Next ==
  \/ \E e \in Events : Notify(e)
  \/ \E c \in ConfigChoices : EditConfig(c)
  \/ \E f \in Names : WriterOpen(f)
  \/ \E f \in locked : WriterClose(f)
  \/ \E f \in files : FsRemove(f)
  \/ Recv
  \/ Reload
  \/ Dispatch
  \/ Probe
  \/ Rename

Spec == Init /\ [][Next]_vars

\* a start with the file in place and two rules that both match it
LiveInit ==
  /\ Init
  /\ files = Names
  /\ config = Ini(TRUE, << Rule(<<"a">>, <<"x", "$0">>),
                           Rule(<<".">>, <<"u", "$0">>) >>)

\* the consumer thread keeps running: main's loop takes its next step
\* whenever it has one
LiveSpec == LiveInit /\ [][Next]_vars /\ WF_vars(Consumer)

\* ------------------------------------------ the settings file is edited
\* a start with the file in place, and a run in which the [settings]
\* section of config.ini is edited as well
SettingsInit ==
  /\ LiveInit
  /\ settings.max_lock_retries = 1

SettingsNext ==
  \/ Next
  \/ \E s \in SettingsChoices : EditSettings(s)

SettingsSpec == SettingsInit /\ [][SettingsNext]_vars

\* ------------------------------------------- the rename engine, any input
\* rules a [translations] section can declare: a literal, a literal given
\* back unchanged, any character, two characters, a template with a path
\* separator, and the empty pattern
RulePool ==
  { Rule(<<"a">>, <<"x", "$0">>),
    Rule(<<"b">>, <<"$0">>),
    Rule(<<".">>, <<"u", "$0">>),
    Rule(<<"a", "b">>, <<"b">>),
    Rule(<<"a">>, <<"d", "/", "$0">>),
    Rule(<<>>, <<>>) }

RuleLists == UNION { [1..n -> RulePool] : n \in 0..MaxRules }

FileNames == UNION { [1..n -> {"a", "b"}] : n \in 1..MaxNameLen }

\* main at the start of its loop, with one of the rule lists loaded and
\* one event for any one file of the directory in the channel
StartWith(lists) ==
  /\ rules \in lists
  /\ config = Ini(TRUE, rules)
  /\ fileSettings \in { s \in SettingsChoices :
                          /\ s.watch_directory = "dir"
                          /\ s.max_lock_retries >= 1
                          /\ s.lock_retry_delay_ms = 1000 }
  /\ settings = load_settings(fileSettings)
  /\ \E f \in FileNames :
       /\ files = {f}
       /\ queue = << [kind |-> "Create", paths |-> <<f>>] >>
  /\ locked = {}
  /\ cur = NoEvent
  /\ idx = 0
  /\ pc = "idle"
  /\ attempt = 0
  /\ log = <<>>
  /\ rulesAtRecv = rules
  /\ enqueued = 1
  /\ processed = 0
  /\ failed = FALSE
  /\ envSteps = 0

EngineInit == StartWith(RuleLists)

EngineNext == Recv \/ Dispatch \/ Probe \/ Rename

EngineSpec == EngineInit /\ [][EngineNext]_vars

\* ------------------------------------- the watcher sees main's renames
\* the rules of the engine, and two that give each other's names
FeedbackPool ==
  RulePool \cup { Rule(<<"a">>, <<"b">>), Rule(<<"b">>, <<"a">>) }

FeedbackLists == UNION { [1..n -> FeedbackPool] : n \in 0..MaxRules }

FeedbackInit == StartWith(FeedbackLists)

\* the watch on the directory reports the rename main has made: a Modify
\* event with the old and the new path, or with the old path alone when
\* the file has left the directory
Echo ==
  /\ pc = "idle"
  /\ queue = <<>>
  /\ \E k \in 1..Len(log) :
       /\ log[k].op = "renamed"
       /\ queue' = << [kind |-> "Modify",
                       paths |-> IF SameDir(log[k].to)
                                 THEN <<log[k].path, log[k].to>>
                                 ELSE <<log[k].path>>] >>
  /\ enqueued' = Inc(enqueued)
  /\ UNCHANGED <<config, fileSettings, files, locked, envSteps, mainVars>>

FeedbackNext == Recv \/ Dispatch \/ Probe \/ Rename \/ Echo

\* main's loop keeps running and the watcher delivers what it has seen
FeedbackSpec ==
  FeedbackInit /\ [][FeedbackNext]_vars /\ WF_vars(Consumer) /\ WF_vars(Echo)

\* ------------------------------------------------------------ the claims
\* the log lines a step appends
Added == SubSeq(log', Len(log) + 1, Len(log'))

\* main is at the rule scan of apply_rename and runs it in this step
Scanning == pc = "scan" /\ log' # log

\* main is at a configuration path and reloads in this step
Reloading == pc = "route" /\ CurPath = ConfigPath /\ log' # log

\* the ops that act on a rule
ActOps == {"replace", "rename_call", "renamed", "rename_failed"}

\* rule r of rs is the first one whose pattern matches s
FirstMatching(rs, s, r) ==
  /\ r \in 1..Len(rs)
  /\ is_match(rs[r].pat, s)
  /\ \A j \in 1..(r - 1) : ~is_match(rs[j].pat, s)

\* C1: apply_rename acts on rule i only if rule i matches the filename and
\* no earlier rule does, and it calls is_match on no rule after the first
\* matching one.
C1_FirstMatchWins ==
  [][Scanning =>
       \A k \in 1..Len(Added) :
         /\ Added[k].op \in ActOps => FirstMatching(rules, CurPath, Added[k].n)
         /\ Added[k].op = "eval" =>
              \A j \in 1..(Added[k].n - 1) : ~is_match(rules[j].pat, CurPath)]_vars

\* a file was renamed by rule 1 while rule 2 matched it too and was not tried
C1_Witness ==
  /\ Len(rules) >= 2
  /\ \E k \in 1..Len(log) :
       /\ log[k].op = "renamed"
       /\ log[k].n = 1
       /\ is_match(rules[1].pat, log[k].path)
       /\ is_match(rules[2].pat, log[k].path)
       /\ \A m \in 1..Len(log) : ~(log[m].op = "eval" /\ log[m].n = 2)

\* load_rules fails on this file
LoadFails(cfg) ==
  \/ ~cfg.readable
  \/ \E k \in 1..Len(cfg.translations) : ~Compiles(cfg.translations[k].pat)

\* C2: a reload whose load_rules fails leaves the RuleSet as it was.
C2_ReloadAtomic ==
  [][(Reloading /\ LoadFails(config)) => rules' = rules]_vars

\* a reload failed on the second pattern, after the first one had compiled,
\* and the RuleSet in force is not that first rule
C2_Witness ==
  /\ \E k \in 1..Len(log) : log[k].op = "reload_fail" /\ log[k].n = 2
  /\ config.readable
  /\ Len(config.translations) = 2
  /\ ~Compiles(config.translations[2].pat)
  /\ rules # <<>>
  /\ rules # <<config.translations[1]>>

\* positions of the log lines for path position i whose op is in ops
LogAt(i, ops) == { k \in 1..Len(log) : log[k].i = i /\ log[k].op \in ops }

ProbeOps == {"probe_ok", "retry", "skip"}

\* probes made, and sleeps taken, by the lock wait of path position i
Probes(i) == Cardinality(LogAt(i, ProbeOps))
Sleeps(i) == Cardinality(LogAt(i, {"retry"}))

\* the lock wait of path position i returned true / false
WaitTrue(i) == LogAt(i, {"probe_ok"}) # {}
WaitFalse(i) == LogAt(i, {"skip", "gaveup"}) # {}

\* C3: a lock wait that returns true at attempt k made exactly k probes,
\* k <= max_lock_retries; one that returns false made exactly
\* max_lock_retries probes; either way it slept (probes - 1) times.
C3_ProbeCount ==
  \A i \in 1..Len(cur.paths) :
    /\ WaitTrue(i) =>
         /\ \A k \in LogAt(i, {"probe_ok"}) : log[k].n = Probes(i)
         /\ Probes(i) <= settings.max_lock_retries
         /\ Sleeps(i) + 1 = Probes(i)
    /\ WaitFalse(i) =>
         /\ Probes(i) = settings.max_lock_retries
         /\ Sleeps(i) + 1 = Probes(i)

\* C4: when the lock wait of a candidate path returns false, no rule is
\* evaluated and no rename is called for it, and a skip is logged.
C4_LockedSkips ==
  \A i \in 1..Len(cur.paths) :
    WaitFalse(i) =>
      /\ LogAt(i, {"eval"} \cup ActOps) = {}
      /\ LogAt(i, {"skip"}) # {}

\* C5 as claimed: no writer holds the file when fs::rename is called.
C5_NeverRenameLocked ==
  \A k \in 1..Len(log) : log[k].op = "rename_call" => ~log[k].held

\* C5 as amended: fs::rename is called for a path only after a probe of it
\* succeeded in the same apply_rename call, and a probe succeeds only while
\* no writer holds the file.
C5_RenameAfterOpenProbe ==
  /\ [](\A k \in 1..Len(log) :
          log[k].op = "rename_call" =>
            \E m \in 1..(k - 1) :
              /\ log[m].op = "probe_ok"
              /\ log[m].i = log[k].i
              /\ \A j \in (m + 1)..(k - 1) : log[j].op \notin ProbeOps)
  /\ [][(pc = "probe" /\ pc' = "scan")
          => (CurPath \in files /\ CurPath \notin locked)]_vars

\* fs::rename was called while a writer held the file
C5_Witness ==
  \E k \in 1..Len(log) : log[k].op = "rename_call" /\ log[k].held

\* C6: every event sent into the channel is eventually processed.
C6_EveryEventProcessed ==
  \A n \in 1..MaxEvents : (enqueued >= n) ~> (processed >= n)

FailOps == {"reload_fail", "nosuchfile", "skip", "gaveup", "rename_failed"}

\* a later event was processed to its end, with no failure of its own,
\* after an earlier one had a failure
C6_Witness ==
  /\ failed
  /\ pc = "idle"
  /\ processed >= 2
  /\ log # <<>>
  /\ \A k \in 1..Len(log) : log[k].op \notin FailOps

\* what a scan of rs decides for name p: the rule (0: none) and the new name
Outcome(rs, p) ==
  IF \E r \in 1..Len(rs) : FirstMatching(rs, p, r)
  THEN LET r == CHOOSE r \in 1..Len(rs) : FirstMatching(rs, p, r)
       IN [r |-> r, to |-> replace(rs[r].pat, p, rs[r].rep)]
  ELSE [r |-> 0, to |-> p]

\* what the log lines of a scan say was decided for name p
Logged(lines, p) ==
  IF \E k \in 1..Len(lines) : lines[k].op = "replace"
  THEN LET k == CHOOSE k \in 1..Len(lines) : lines[k].op = "replace"
       IN [r |-> lines[k].n, to |-> lines[k].to]
  ELSE [r |-> 0, to |-> p]

\* C7 as claimed: every candidate path of an event is decided by the
\* RuleSet that was in force when the event was taken from the queue.
C7_RulesFrozenPerEvent ==
  [][Scanning => Logged(Added, CurPath) = Outcome(rulesAtRecv, CurPath)]_vars

\* C7 as amended: a successful reload installs the new RuleSet at once; a
\* candidate path is decided by the RuleSet in force when its scan runs,
\* which is the one of the event's arrival until a reload of this event
\* succeeds, and the newly loaded one after that.
C7_ReloadTakesEffectAtOnce ==
  /\ [][/\ Scanning => Logged(Added, CurPath) = Outcome(rules, CurPath)
        /\ (Reloading /\ ~LoadFails(config)) => rules' = config.translations
        /\ rules' # rules => Reloading]_vars
  /\ []((\A k \in 1..Len(log) : log[k].op # "reload_ok") => rules = rulesAtRecv)

\* a candidate path that follows the configuration path in its event was
\* decided otherwise than the RuleSet of the event's arrival decides
C7_Witness ==
  \E k \in 1..Len(log), m \in 1..Len(log) :
    /\ log[k].op = "reload_ok"
    /\ log[k].i = 1
    /\ log[m].op = "renamed"
    /\ log[m].i = 2
    /\ [r |-> log[m].n, to |-> log[m].to] # Outcome(rulesAtRecv, log[m].path)

\* the ops that end the handling of a candidate path
EndOps == {"nosuchfile", "gaveup", "skip", "nomatch", "replace",
           "renamed", "rename_failed"}

\* C8: the paths of an event are handled in the order of its path list; at
\* the end of a Create/Modify event every configuration path has had its
\* reload and every candidate path its existence check and, as far as the
\* outcomes allow, its lock wait, rule scan and rename.
C8_BothProcessedInOrder ==
  /\ \A k \in 1..Len(log), m \in 1..Len(log) : k < m => log[k].i <= log[m].i
  /\ \A k \in 1..Len(log) :
       /\ log[k].path = cur.paths[log[k].i]
       /\ (log[k].op \in {"reload_ok", "reload_fail"}) = (log[k].path = ConfigPath)
       /\ log[k].op \in ProbeOps \cup {"gaveup"} =>
            \E m \in 1..(k - 1) : log[m].op = "exists" /\ log[m].i = log[k].i
       /\ log[k].op \in {"eval", "nomatch"} \cup ActOps =>
            \E m \in 1..(k - 1) : log[m].op = "probe_ok" /\ log[m].i = log[k].i
  /\ (pc = "idle" /\ cur.kind \in {"Create", "Modify"}) =>
       \A i \in 1..Len(cur.paths) :
         IF cur.paths[i] = ConfigPath
         THEN Cardinality(LogAt(i, {"reload_ok", "reload_fail"})) = 1
         ELSE /\ Cardinality(LogAt(i, {"exists", "nosuchfile"})) = 1
              /\ LogAt(i, EndOps) # {}

\* an event naming the configuration path and then a candidate is done:
\* its reload came first and the rename of its candidate last
C8_Witness ==
  /\ pc = "idle"
  /\ cur.paths = <<ConfigPath, <<"a">>>>
  /\ Len(log) >= 2
  /\ log[1].op = "reload_ok"
  /\ log[1].i = 1
  /\ log[Len(log)].op = "renamed"
  /\ log[Len(log)].i = 2

\* C9: when the first matching rule's substitution yields the name
\* itself, fs::rename is not called, nothing is reported as renamed, the
\* directory is left as it is, and no later rule is tried.
C9_NoOpOnSameName ==
  [][(/\ Scanning
      /\ Outcome(rules, CurPath).r # 0
      /\ Outcome(rules, CurPath).to = CurPath)
       => /\ files' = files
          /\ \A k \in 1..Len(Added) :
               /\ Added[k].op \notin {"rename_call", "renamed", "rename_failed"}
               /\ Added[k].op = "eval" => Added[k].n <= Outcome(rules, CurPath).r]_vars

\* rule 1 matched and gave the name back, rule 2 matched too, and the scan
\* ended without a rename
C9_Witness ==
  /\ Len(rules) >= 2
  /\ \E k \in 1..Len(log) :
       /\ log[k].op = "replace"
       /\ log[k].n = 1
       /\ log[k].to = log[k].path
       /\ is_match(rules[2].pat, log[k].path)
       /\ replace(rules[2].pat, log[k].path, rules[2].rep) # log[k].path
       /\ k = Len(log)

\* C10: taking an event whose kind is neither Create nor Modify changes
\* neither the RuleSet nor the filesystem and starts no reload, existence
\* check, probe or rename; main is back at the queue at once.
C10_OtherKindsIgnored ==
  /\ [][(/\ pc = "idle"
         /\ queue # <<>>
         /\ queue' = Tail(queue)
         /\ Head(queue).kind \notin {"Create", "Modify"})
          => /\ rules' = rules
             /\ settings' = settings
             /\ files' = files
             /\ locked' = locked
             /\ config' = config
             /\ log' = <<>>
             /\ pc' = "idle"]_vars
  /\ [](cur.kind \notin {"Create", "Modify"} => (log = <<>> /\ pc = "idle"))

\* a Remove event naming the configuration path was taken while the file
\* held rules other than those in force, and the rules stayed
C10_Witness ==
  /\ cur.kind = "Remove"
  /\ cur.paths = <<ConfigPath>>
  /\ processed >= 1
  /\ ~LoadFails(config)
  /\ rules # config.translations

\* C11: there is one channel, first in first out, for the events of both
\* watched targets, and one consumer.  The channel changes only by a send
\* at its tail, which leaves main where it is, or by main taking its head;
\* main takes an event only when every path of the previous one is
\* resolved; and no event is lost: every event sent is in the channel, in
\* main's hands, or processed.
C11_FifoOneAtATime ==
  /\ [](enqueued = processed + Len(queue) + (IF pc = "idle" THEN 0 ELSE 1))
  /\ [][ /\ queue' # queue =>
             \/ /\ \E e \in Events : queue' = Append(queue, e)
                /\ UNCHANGED mainVars
             \/ /\ pc = "idle"
                /\ queue # <<>>
                /\ cur' = Head(queue)
                /\ queue' = Tail(queue)
         /\ cur' # cur =>
             pc = "idle" /\ queue # <<>> /\ cur' = Head(queue)
     ]_vars

\* main is about to probe a locked file a second time while an event for
\* config.ini waits in the channel
C11_Witness ==
  /\ pc = "probe"
  /\ attempt = 2
  /\ cur.paths = << <<"a">> >>
  /\ Len(queue) = 1
  /\ queue[1].paths = <<ConfigPath>>

\* the RuleSet was empty when the event was taken and no reload of this
\* event has installed a rule since
EmptyInForce ==
  /\ rulesAtRecv = <<>>
  /\ \A k \in 1..Len(log) : log[k].op = "reload_ok" => log[k].n = 0

\* C12: while the RuleSet in force is empty, no rule is evaluated or acted
\* on, no rename is called, and every candidate path whose scan has run
\* ended with "No matching rule", whatever config.ini says by now.
C12_EmptyRuleSetNoRename ==
  EmptyInForce =>
    /\ \A k \in 1..Len(log) : log[k].op \notin ActOps \cup {"eval"}
    /\ \A i \in 1..Len(cur.paths) :
         (LogAt(i, {"probe_ok"}) # {} /\ ~(i = idx /\ pc = "scan")) =>
           LogAt(i, {"nomatch"}) # {}

\* a candidate ended with no match under the empty RuleSet while config.ini
\* already declares a rule that matches it, and no reload has run
C12_Witness ==
  /\ EmptyInForce
  /\ rules = <<>>
  /\ load_rules(config).ok
  /\ \E k \in 1..Len(log), r \in 1..Len(config.translations) :
       /\ log[k].op = "nomatch"
       /\ is_match(config.translations[r].pat, log[k].path)

\* C13: the Settings main loaded at startup (watch_directory,
\* max_lock_retries, lock_retry_delay_ms) are never changed: no event, no
\* reload and no edit of config.ini changes them.
C13_SettingsFrozen == [][settings' = settings]_vars

\* a reload has replaced the RuleSet while the [settings] section of the
\* file differs from the Settings in force in each of its three values
C13_Witness ==
  /\ \E k \in 1..Len(log) : log[k].op = "reload_ok"
  /\ rules # rulesAtRecv
  /\ rules = config.translations
  /\ fileSettings.watch_directory # settings.watch_directory
  /\ fileSettings.max_lock_retries # settings.max_lock_retries
  /\ fileSettings.lock_retry_delay_ms # settings.lock_retry_delay_ms

ReloadOps == {"reload_ok", "reload_fail"}

\* C14: every path of a Create/Modify event is classified once, by
\* comparison with the configuration path.  All that is done for the
\* configuration path is one reload: no existence check, no probe, no rule
\* and no rename, also when a rule in force matches its name.  All that is
\* done for any other path belongs to the rename pipeline: never a reload.
C14_OneClassification ==
  /\ \A k \in 1..Len(log) :
       /\ log[k].path = cur.paths[log[k].i]
       /\ IF log[k].path = ConfigPath
          THEN log[k].op \in ReloadOps
          ELSE log[k].op \notin ReloadOps
  /\ \A i \in 1..Len(cur.paths) : Cardinality(LogAt(i, ReloadOps)) <= 1

\* an event with the configuration path and a candidate is done: the
\* reload has run, the candidate is renamed, and a rule in force matches
\* the name of the configuration file
C14_Witness ==
  /\ pc = "idle"
  /\ \E k \in 1..Len(log) : log[k].op = "reload_ok"
  /\ \E k \in 1..Len(log) : log[k].op = "renamed"
  /\ \E r \in 1..Len(rules) : is_match(rules[r].pat, ConfigPath)

\* the new path of every rename call of the event lies in the directory of
\* the file
TargetsInPlace ==
  \A k \in 1..Len(log) : log[k].op = "rename_call" => SameDir(log[k].to)

\* C15 as claimed: whatever the filename and the replacement template,
\* the rename is called with a new path in the directory of the old one,
\* and apply_rename leaves the RuleSet as it is.
C15_RenameInPlace ==
  /\ []TargetsInPlace
  /\ [][Scanning => rules' = rules]_vars

\* C16 as claimed: when wait_for_file_unlock has returned false for a path
\* it has probed it at least once, has reported the exhaustion as a skip,
\* and has reported every failed probe but the last as locked, retrying.
C16_FalseAfterProbe ==
  \A i \in 1..Len(cur.paths) :
    WaitFalse(i) =>
      /\ Probes(i) >= 1
      /\ Cardinality(LogAt(i, {"skip"})) = 1
      /\ Cardinality(LogAt(i, {"retry"})) = Probes(i) - 1
      /\ LogAt(i, {"probe_ok"}) = {}

\* C17: at most one rename is called for a path of an event; when it
\* fails, the failure is reported, nothing more is done for that path, and
\* main has gone on to the next path or event.
C17_FailedRenameNotRetried ==
  \A i \in 1..Len(cur.paths) :
    /\ Cardinality(LogAt(i, {"rename_call"})) <= 1
    /\ \A k \in LogAt(i, {"rename_failed"}) :
         /\ failed
         /\ log[k - 1].op = "rename_call" /\ log[k - 1].i = i
         /\ \A j \in (k + 1)..Len(log) : log[j].i > i
         /\ idx > i \/ pc = "idle"

\* the rename of the first path of an event failed, and the second path
\* of the same event was renamed after it
C17_Witness ==
  \E k \in 1..Len(log), j \in 1..Len(log) :
    /\ log[k].op = "rename_failed" /\ log[k].i = 1
    /\ log[j].op = "renamed" /\ log[j].i = 2

\* main is at a candidate path and starts apply_rename in this step
Dispatching == pc = "route" /\ CurPath # ConfigPath /\ log' # log

\* C18: when apply_rename is called for a path that is not there, it
\* returns at once: no lock probe, no rule evaluated, no rename called, the
\* directory and the RuleSet left alone, and main goes on to the next path.
C18_VanishedPathIgnored ==
  [][ (Dispatching /\ CurPath \notin files) =>
        /\ \A k \in 1..Len(Added) :
             Added[k].op \notin ProbeOps \cup ActOps \cup {"eval", "exists"}
        /\ pc' \in {"route", "idle"}
        /\ idx' > idx \/ pc' = "idle"
        /\ attempt' = attempt
        /\ UNCHANGED <<files, locked, rules>>
    ]_vars

\* an event names a file that an earlier event has renamed: the path is
\* found gone, and the file is in the directory under its new name
C18_Witness ==
  /\ processed = 2
  /\ cur.paths = << <<"a">> >>
  /\ Len(log) = 1
  /\ log[1].op = "nosuchfile"
  /\ files = { <<"x", "a">> }

\* C19: after every load that succeeds, at startup and at a reload, the
\* RuleSet is the list of the (pattern, replacement) entries of the
\* [translations] section as the file has it at that moment, in file
\* order: no rule of the previous RuleSet is kept and none is left out.
C19_RuleSetIsSection ==
  /\ rules = config.translations
  /\ [][ (Reloading /\ load_rules(config).ok) =>
          /\ rules' = config.translations
          /\ Len(Added) = 1
          /\ Added[1].op = "reload_ok"
          /\ Added[1].n = Len(config.translations)
     ]_vars

\* a reload has replaced a RuleSet by two different rules of the file, in
\* file order, and a rule of the previous RuleSet is gone
C19_Witness ==
  /\ log # <<>>
  /\ log[Len(log)].op = "reload_ok"
  /\ Len(rules) = 2
  /\ rules[1] # rules[2]
  /\ rules = config.translations
  /\ \E j \in 1..Len(rulesAtRecv) :
       \A k \in 1..Len(rules) : rulesAtRecv[j] # rules[k]

\* main is idle, the channel is empty, and the event just handled renamed
\* nothing, so that the watcher has nothing more to report
Settled ==
  /\ pc = "idle"
  /\ queue = <<>>
  /\ \A k \in 1..Len(log) : log[k].op # "renamed"

\* C20 as claimed: with a fixed RuleSet and nothing but the watcher's
\* reports of main's own renames after the one file was created, the file
\* is renamed only finitely many times: the pipeline settles for good.
C20_Quiescence == <>[]Settled
====
